---- MODULE Spec2Model ----
(***************************************************************************)
(* Model of the vitio-back API: the project flow-graph store               *)
(* (routers/projects.py, routers/nodes.py over database.py) and the media  *)
(* store with its asset replacement protocol (routers/media.py over        *)
(* database.py and cloudinary_service.py).                                 *)
(*                                                                         *)
(* Every request is executed by a process.  A process step is one          *)
(* statement against the PostgreSQL pool (each statement autocommits: no   *)
(* handler opens a transaction) or one call to Cloudinary, together with   *)
(* the local computation around it.  uuid4 values are modelled as fresh    *)
(* naturals, one counter per table; 0 stands for an id that was never      *)
(* minted.  A request is served by the first free worker.                  *)
(***************************************************************************)
EXTENDS Integers, Sequences, FiniteSets, TLC

\* ---------------------------------------------------------------- bounds
NumProcs == 2
MaxRequests == 3
MaxProjects == 1
MaxNodes == 4
MaxMedia == 1

Procs == 1..NumProcs
Users == {"u1", "u2"}

\* Optional values (Python None / SQL NULL) are sequences of length <= 1.
None == <<>>
Some(v) == <<v>>
OrDefault(opt, d) == IF opt = None THEN d ELSE opt[1]

VARIABLES
    projects,         \* table projects: rows [id, title, description, status, user_id]
    nodes,            \* table nodes: rows [id, type, position, data, node_order, project_id]
    edges,            \* table edges: rows [id, type, source, target, project_id]
    media,            \* table media: rows [id, user_id, title, description, size, type, ext, url, project_id]
    nodeOrderColumn,  \* whether the deployed nodes table has a node_order column
    blobs,            \* Cloudinary assets: [public_id, resource_type]
    minted,           \* uuid4 values handed out so far, per table
    pc,               \* position of each request
    loc,              \* local variables of each request
    resp,             \* HTTP response of each request (status 0: none)
    log,              \* Cloudinary calls made by each request, in order
    assigned          \* nodeOrder values handed to created nodes (history)

vars == <<projects, nodes, edges, media, nodeOrderColumn, blobs, minted,
          pc, loc, resp, log, assigned>>

Idle == [op |-> "none"]
NoResp == [status |-> 0]

\* ------------------------------------------------------- seed constants
StartX == 0
StartY == 40
EndX == 800
EndY == 40
StartOrder == 1
EndOrder == 2

\* ------------------------------------------------------------ inputs
\* Titles are character sequences so that strip() is computed.
Titles == {<<>>, <<" ">>, <<"D">>, <<" ", "D">>}
DefaultPosition == [x |-> 0, y |-> 0]
AttrsSet == {[type |-> None, position |-> None, data |-> None],
             [type |-> Some("video"), position |-> Some([x |-> 100, y |-> 200]),
              data |-> Some("d")]}
EdgeTypes == {"default"}

\* str.strip(): drop leading and trailing blanks
RECURSIVE LStrip(_)
LStrip(s) == IF s # <<>> /\ Head(s) = " " THEN LStrip(Tail(s)) ELSE s
RECURSIVE RStrip(_)
RStrip(s) == IF s # <<>> /\ s[Len(s)] = " " THEN RStrip(SubSeq(s, 1, Len(s) - 1)) ELSE s
Strip(s) == RStrip(LStrip(s))

\* ------------------------------------------------------- database.py
\* find_project: the rows with this id (empty: None)
find_project(project_id) == {r \in projects : r.id = project_id}

\* find_node
find_node(node_id) == {n \in nodes : n.id = node_id}

\* FOREIGN KEY (project_id) REFERENCES projects(id)
ProjectFK_Unchecked(project_id) == TRUE
ProjectFK(project_id) == \E r \in projects : r.id = project_id

\* insert_project: the row written
ProjectRow(project_data) ==
    [id |-> project_data.id, title |-> project_data.title,
     description |-> project_data.description, status |-> project_data.status,
     user_id |-> project_data.userId]

\* insert_node: the row written; nodeOrder of node_data is not among the
\* inserted columns, so node_order (where the column exists) stays NULL
NodeRow(node_data) ==
    [id |-> node_data.id, type |-> node_data.type, position |-> node_data.position,
     data |-> node_data.data, node_order |-> None, project_id |-> node_data.projectId]

\* insert_edge: the row written
EdgeRow_Reversed(edge_data) ==
    [id |-> edge_data.id, type |-> edge_data.type, source |-> edge_data.target,
     target |-> edge_data.source, project_id |-> edge_data.projectId]
EdgeRow(edge_data) ==
    [id |-> edge_data.id, type |-> edge_data.type, source |-> edge_data.source,
     target |-> edge_data.target, project_id |-> edge_data.projectId]

\* SELECT MAX(node_order) FROM nodes WHERE project_id = $1 (NULL over no values)
MaxOf(S) == CHOOSE m \in S : \A k \in S : k <= m
MaxNodeOrder(project_id) ==
    LET vals == {n.node_order[1] : n \in {m \in nodes : m.project_id = project_id
                                                         /\ m.node_order # None}}
    IN IF vals = {} THEN None ELSE Some(MaxOf(vals))

\* next_order = (last_order_row["max_order"] or 0) + 1
NextOrder(project_id) == OrDefault(MaxNodeOrder(project_id), 0) + 1

\* DELETE FROM nodes WHERE id = $1
NodesWithout_Project(node_id) ==
    {n \in nodes : \A m \in nodes : m.id = node_id => n.project_id # m.project_id}
NodesWithout(node_id) == {n \in nodes : n.id # node_id}

\* DELETE FROM edges WHERE source = $1 OR target = $1
EdgesWithout_SourceOnly(node_id) == {e \in edges : ~(e.source = node_id)}
EdgesWithout(node_id) == {e \in edges : ~(e.source = node_id \/ e.target = node_id)}

\* ON DELETE CASCADE of nodes, edges and media on projects(id)
CascadeNodes(project_id) == {n \in nodes : n.project_id # project_id}
CascadeEdges(project_id) == {e \in edges : e.project_id # project_id}
CascadeMedia_None(project_id) == media
CascadeMedia(project_id) == {m \in media : m.project_id # Some(project_id)}

\* delete_project: result != "DELETE 0"
DeleteProjectResult(project_id) == \E r \in projects : r.id = project_id

\* ------------------------------------------------- cloudinary_service.py
MaxFileSize == 104857600
Kinds_VideoFirst == <<"video", "image", "raw">>
Kinds == <<"image", "video", "raw">>
Marker == "/vau_media/"

\* Uploaded files: content types and urls are token sequences, so that the
\* substring tests and splits of the code are computed.
Files == {[filename |-> "a.jpg", content_type |-> <<"image", "/", "jpeg">>, size |-> 11],
          [filename |-> "a.pdf", content_type |-> <<"application", "/", "pdf">>, size |-> 12],
          [filename |-> "b.jpg", content_type |-> <<"image", "/", "jpeg">>,
           size |-> MaxFileSize + 1],
          [filename |-> "", content_type |-> <<"image", "/", "jpeg">>, size |-> 11]}
MediaTypes == {"IMAGE"}

Contains(seq, tok) == \E i \in 1..Len(seq) : seq[i] = tok
IndexOf(seq, tok) ==
    IF Contains(seq, tok)
    THEN CHOOSE i \in 1..Len(seq) : seq[i] = tok /\ \A j \in 1..(i - 1) : seq[j] # tok
    ELSE 0

\* upload_file: resource type from the content type
ResourceTypeOf(content_type) ==
    IF Contains(content_type, "image") THEN "image"
    ELSE IF Contains(content_type, "video") THEN "video"
    ELSE "raw"

\* the format Cloudinary reports for an asset (raw assets have none)
FormatOf(resource_type) ==
    IF resource_type = "image" THEN Some("jpg")
    ELSE IF resource_type = "video" THEN Some("mp4")
    ELSE None

\* public_id Cloudinary gives the asset uploaded as unique_id into folder vau_media
PublicIdOf(unique_id) == <<"vau_media/", ToString(unique_id)>>

\* secure_url of the asset
SecureUrl(unique_id, resource_type) ==
    <<"https://res.cloudinary.com/demo/", resource_type, "/upload/v1", Marker,
      ToString(unique_id)>>
    \o (IF FormatOf(resource_type) = None THEN <<>>
        ELSE <<".", FormatOf(resource_type)[1]>>)

\* upload_file: the dictionary returned on success
UploadResult(unique_id, file) ==
    [url |-> SecureUrl(unique_id, ResourceTypeOf(file.content_type)),
     public_id |-> PublicIdOf(unique_id),
     resource_type |-> ResourceTypeOf(file.content_type),
     format |-> FormatOf(ResourceTypeOf(file.content_type)),
     size |-> file.size]

\* upload_file: the HTTP error raised before Cloudinary is called (0: none)
UploadRejected(file) ==
    IF file.filename = "" THEN 400
    ELSE IF file.size > MaxFileSize THEN 400
    ELSE 0

\* cloudinary.api.resource: the asset is there under this resource type
BlobExists_Always(public_id, resource_type) == TRUE
BlobExists(public_id, resource_type) ==
    [public_id |-> public_id, resource_type |-> resource_type] \in blobs

\* cloudinary.uploader.destroy: the assets left
BlobsWithout_Kept(public_id, resource_type) == blobs
BlobsWithout(public_id, resource_type) ==
    blobs \ {[public_id |-> public_id, resource_type |-> resource_type]}

\* ---------------------------------------------------- database.py media
\* insert_media: the row written (bucket_id is not among the columns)
MediaRow(media_data) ==
    [id |-> media_data.id, user_id |-> media_data.user_id, title |-> media_data.title,
     description |-> media_data.description, size |-> media_data.size,
     type |-> media_data.type, ext |-> media_data.ext, url |-> media_data.url,
     status |-> "active", project_id |-> media_data.project_id]

\* find_media({"user_id": ...}): the dictionaries returned
find_media_AnyUser(user_id) == media
find_media(user_id) == {m \in media : m.user_id = user_id}

\* dict.get(key) on a row dictionary
Get(d, key) == IF key \in DOMAIN d THEN Some(d[key]) ELSE None

\* update_media: the columns of update_data that reach the SET clause
UpdatableColumns == {"title", "description", "type", "status"}
SetClauses(update_data) == DOMAIN update_data \cap UpdatableColumns

\* update_media: the table after the UPDATE (no statement without SET clauses)
UpdateMediaRows_Rewrite(media_id, update_data) ==
    IF SetClauses(update_data) = {} THEN media
    ELSE {IF m.id = media_id
          THEN [f \in DOMAIN m |-> IF f \in SetClauses(update_data) THEN update_data[f]
                                   ELSE IF f = "size" THEN 0
                                   ELSE IF f = "url" THEN <<>>
                                   ELSE m[f]]
          ELSE m : m \in media}

UpdateMediaRows(media_id, update_data) ==
    IF SetClauses(update_data) = {} THEN media
    ELSE {IF m.id = media_id
          THEN [f \in DOMAIN m |-> IF f \in SetClauses(update_data)
                                   THEN update_data[f] ELSE m[f]]
          ELSE m : m \in media}

\* update_media: the rows returned (empty: None)
UpdateMediaResult(media_id, update_data) ==
    IF SetClauses(update_data) = {} THEN {}
    ELSE {m \in UpdateMediaRows(media_id, update_data) : m.id = media_id}

\* ------------------------------------------- media.py replace_media_file
\* public_id derived from the stored url: text after the marker, up to the first dot
AfterMarker(url) == SubSeq(url, IndexOf(url, Marker) + 1, Len(url))
BeforeDot_Whole(s) == s
BeforeDot(s) == IF Contains(s, ".") THEN SubSeq(s, 1, IndexOf(s, ".") - 1) ELSE s
OldPublicId(target) ==
    IF Get(target, "bucket_id") # None THEN Get(target, "bucket_id")
    ELSE IF target.url # <<>> /\ Contains(target.url, Marker)
         THEN Some(<<"vau_media/">> \o BeforeDot(AfterMarker(target.url)))
         ELSE None

\* ------------------------------------------------------ process steps
\* A worker is free before its first request and after it has answered one.
Free(p) == pc[p] \in {"idle", "done"}

\* The next request goes to the first free worker.
Accepts(p) ==
    /\ Free(p)
    /\ \A q \in Procs : q < p => ~Free(q)
    /\ minted.request < MaxRequests

Finish(p, r) ==
    /\ pc' = [pc EXCEPT ![p] = "done"]
    /\ resp' = [resp EXCEPT ![p] = r]

Goto(p, label) ==
    /\ pc' = [pc EXCEPT ![p] = label]
    /\ resp' = [resp EXCEPT ![p] = NoResp]

NoCalls(p) == log' = [log EXCEPT ![p] = <<>>]

\* ------------------------------------------------------ ownership checks
\* projects.py: if not project: 404; if project["userId"] != user: 403
\* (0: the request goes on)
ProjectGuard(project, user) ==
    IF project = {} THEN 404
    ELSE IF \E r \in project : r.user_id # user THEN 403
    ELSE 0

\* nodes.py create_node: if not project or project["userId"] != user: 404
CreateNodeGuard(project, user) ==
    IF project = {} \/ \E r \in project : r.user_id # user THEN 404 ELSE 0

\* nodes.py update_node, delete_node, reset_node_position: if not node: 404
NodeGuard(node) == IF node = {} THEN 404 ELSE 0

\* nodes.py update_node, delete_node, reset_node_position:
\* if not project or project["userId"] != user: 403
NodeProjectGuard(project, user) ==
    IF project = {} \/ \E r \in project : r.user_id # user THEN 403 ELSE 0

\* ---------------------------------------------- projects.py create_project
\* the dictionaries create_project builds
CreateProjectLocals(user, title, project_id, start_node_id, end_node_id, edge_id) ==
    [op |-> "create_project", user |-> user,
     new_project |-> [id |-> project_id, title |-> Strip(title),
                      description |-> <<>>, status |-> TRUE, userId |-> user],
     start_node |-> [id |-> start_node_id, type |-> "start",
                     position |-> [x |-> StartX, y |-> StartY],
                     data |-> "{}", nodeOrder |-> StartOrder,
                     projectId |-> project_id],
     end_node |-> [id |-> end_node_id, type |-> "end",
                   position |-> [x |-> EndX, y |-> EndY],
                   data |-> "{}", nodeOrder |-> EndOrder,
                   projectId |-> project_id],
     edge |-> [id |-> edge_id, type |-> "default", source |-> start_node_id,
               target |-> end_node_id, projectId |-> project_id]]

\* the response of create_project
CreateProjectResponse(l) ==
    [status |-> 200, data |-> l.new_project, nodes |-> <<l.start_node, l.end_node>>,
     edges |-> <<l.edge>>]

CreateProject(p) ==
    /\ Accepts(p)
    /\ minted.project < MaxProjects
    /\ minted.node + 2 <= MaxNodes
    /\ \E user \in Users, title \in Titles :
         IF title = <<>> \/ Strip(title) = <<>>
         THEN /\ Finish(p, [status |-> 400])
              /\ loc' = [loc EXCEPT ![p] = [op |-> "create_project"]]
              /\ minted' = [minted EXCEPT !.request = @ + 1]
              /\ UNCHANGED projects
         ELSE LET l == CreateProjectLocals(user, title, minted.project + 1,
                                           minted.node + 1, minted.node + 2,
                                           minted.edge + 1)
              IN /\ minted' = [minted EXCEPT !.request = @ + 1, !.project = @ + 1,
                                              !.node = @ + 2, !.edge = @ + 1]
                 /\ projects' = projects \cup {ProjectRow(l.new_project)}
                 /\ loc' = [loc EXCEPT ![p] = l]
                 /\ Goto(p, "cp_start")
    /\ NoCalls(p)
    /\ UNCHANGED <<nodes, edges, media, nodeOrderColumn, blobs, assigned>>

\* await insert_node(start_node)
CP_InsertStart(p) ==
    /\ pc[p] = "cp_start"
    /\ IF ProjectFK(loc[p].start_node.projectId)
       THEN /\ nodes' = nodes \cup {NodeRow(loc[p].start_node)}
            /\ assigned' = assigned \cup
                 {[node |-> loc[p].start_node.id, project |-> loc[p].start_node.projectId,
                   order |-> loc[p].start_node.nodeOrder, by |-> "create_project"]}
            /\ Goto(p, "cp_end")
       ELSE /\ Finish(p, [status |-> 500])
            /\ UNCHANGED <<nodes, assigned>>
    /\ UNCHANGED <<projects, edges, media, nodeOrderColumn, blobs, minted, loc, log>>

\* await insert_node(end_node)
CP_InsertEnd(p) ==
    /\ pc[p] = "cp_end"
    /\ IF ProjectFK(loc[p].end_node.projectId)
       THEN /\ nodes' = nodes \cup {NodeRow(loc[p].end_node)}
            /\ assigned' = assigned \cup
                 {[node |-> loc[p].end_node.id, project |-> loc[p].end_node.projectId,
                   order |-> loc[p].end_node.nodeOrder, by |-> "create_project"]}
            /\ Goto(p, "cp_edge")
       ELSE /\ Finish(p, [status |-> 500])
            /\ UNCHANGED <<nodes, assigned>>
    /\ UNCHANGED <<projects, edges, media, nodeOrderColumn, blobs, minted, loc, log>>

\* await insert_edge(edge); return
CP_InsertEdge(p) ==
    /\ pc[p] = "cp_edge"
    /\ IF ProjectFK(loc[p].edge.projectId)
       THEN /\ edges' = edges \cup {EdgeRow(loc[p].edge)}
            /\ Finish(p, CreateProjectResponse(loc[p]))
       ELSE /\ Finish(p, [status |-> 500])
            /\ UNCHANGED edges
    /\ UNCHANGED <<projects, nodes, media, nodeOrderColumn, blobs, minted, loc, log,
                   assigned>>

\* ------------------------------------------------- nodes.py create_node
\* (requests without a file part)
CreateNode(p) ==
    /\ Accepts(p)
    /\ minted.node < MaxNodes
    /\ \E user \in Users, projectId \in 0..minted.project,
          sourceNodeId \in {None} \cup {Some(i) : i \in 0..minted.node},
          typeEdge \in EdgeTypes :
         LET project == find_project(projectId)
         IN IF CreateNodeGuard(project, user) # 0
            THEN /\ Finish(p, [status |-> CreateNodeGuard(project, user)])
                 /\ loc' = [loc EXCEPT ![p] = [op |-> "create_node"]]
                 /\ minted' = [minted EXCEPT !.request = @ + 1]
            ELSE /\ minted' = [minted EXCEPT !.request = @ + 1, !.node = @ + 1,
                          !.edge = IF sourceNodeId # None THEN @ + 1 ELSE @]
                 /\ loc' = [loc EXCEPT ![p] =
                        [op |-> "create_node", user |-> user, projectId |-> projectId,
                         sourceNodeId |-> sourceNodeId, typeEdge |-> typeEdge,
                         node_id |-> minted.node + 1, edge_id |-> minted.edge + 1]]
                 /\ Goto(p, "cn_max")
    /\ NoCalls(p)
    /\ UNCHANGED <<projects, nodes, edges, media, nodeOrderColumn, blobs, assigned>>

\* SELECT MAX(node_order) ...; build new_node from the attributes of the
\* request (read here for the first time)
CN_ReadMax(p) ==
    /\ pc[p] = "cn_max"
    /\ IF nodeOrderColumn
       THEN \E attributes \in AttrsSet :
            /\ loc' = [loc EXCEPT ![p] = [f \in DOMAIN loc[p] \cup {"new_node"} |->
                 IF f = "new_node"
                 THEN [id |-> loc[p].node_id,
                       type |-> OrDefault(attributes.type, "default"),
                       position |-> OrDefault(attributes.position, DefaultPosition),
                       data |-> OrDefault(attributes.data, "{}"),
                       nodeOrder |-> NextOrder(loc[p].projectId),
                       projectId |-> loc[p].projectId]
                 ELSE loc[p][f]]]
            /\ Goto(p, "cn_node")
       ELSE /\ Finish(p, [status |-> 500])
            /\ UNCHANGED loc
    /\ UNCHANGED <<projects, nodes, edges, media, nodeOrderColumn, blobs, minted, log,
                   assigned>>

\* await insert_node(new_node)
CN_InsertNode(p) ==
    /\ pc[p] = "cn_node"
    /\ IF ProjectFK(loc[p].new_node.projectId)
       THEN /\ nodes' = nodes \cup {NodeRow(loc[p].new_node)}
            /\ assigned' = assigned \cup
                 {[node |-> loc[p].new_node.id, project |-> loc[p].new_node.projectId,
                   order |-> loc[p].new_node.nodeOrder, by |-> "create_node"]}
            /\ IF loc[p].sourceNodeId # None
               THEN Goto(p, "cn_edge")
               ELSE Finish(p, [status |-> 200, data |-> loc[p].new_node])
       ELSE /\ Finish(p, [status |-> 500])
            /\ UNCHANGED <<nodes, assigned>>
    /\ UNCHANGED <<projects, edges, media, nodeOrderColumn, blobs, minted, loc, log>>

\* await insert_edge(new_edge); return
CN_InsertEdge(p) ==
    /\ pc[p] = "cn_edge"
    /\ IF ProjectFK(loc[p].projectId)
       THEN /\ edges' = edges \cup
                 {EdgeRow([id |-> loc[p].edge_id, type |-> loc[p].typeEdge,
                           source |-> loc[p].sourceNodeId[1],
                           target |-> loc[p].node_id,
                           projectId |-> loc[p].projectId])}
            /\ Finish(p, [status |-> 200, data |-> loc[p].new_node])
       ELSE /\ Finish(p, [status |-> 500])
            /\ UNCHANGED edges
    /\ UNCHANGED <<projects, nodes, media, nodeOrderColumn, blobs, minted, loc, log,
                   assigned>>

\* ------------------------------------------------- nodes.py delete_node
DeleteNode(p) ==
    /\ Accepts(p)
    /\ minted' = [minted EXCEPT !.request = @ + 1]
    /\ \E user \in Users, id \in 0..minted.node :
         LET node == find_node(id)
         IN IF NodeGuard(node) # 0
            THEN /\ Finish(p, [status |-> NodeGuard(node)])
                 /\ loc' = [loc EXCEPT ![p] = [op |-> "delete_node"]]
            ELSE /\ loc' = [loc EXCEPT ![p] =
                        [op |-> "delete_node", user |-> user, id |-> id,
                         projectId |-> (CHOOSE n \in node : TRUE).project_id]]
                 /\ Goto(p, "dn_project")
    /\ NoCalls(p)
    /\ UNCHANGED <<projects, nodes, edges, media, nodeOrderColumn, blobs, assigned>>

\* project = await find_project(node["projectId"]); ownership check
DN_FindProject(p) ==
    /\ pc[p] = "dn_project"
    /\ LET project == find_project(loc[p].projectId)
       IN IF NodeProjectGuard(project, loc[p].user) # 0
          THEN Finish(p, [status |-> NodeProjectGuard(project, loc[p].user)])
          ELSE Goto(p, "dn_node")
    /\ UNCHANGED <<projects, nodes, edges, media, nodeOrderColumn, blobs, minted, loc,
                   log, assigned>>

\* DELETE FROM nodes WHERE id = $1
DN_DeleteNode(p) ==
    /\ pc[p] = "dn_node"
    /\ nodes' = NodesWithout(loc[p].id)
    /\ Goto(p, "dn_edges")
    /\ UNCHANGED <<projects, edges, media, nodeOrderColumn, blobs, minted, loc, log,
                   assigned>>

\* DELETE FROM edges WHERE source = $1 OR target = $1; return
DN_DeleteEdges(p) ==
    /\ pc[p] = "dn_edges"
    /\ edges' = EdgesWithout(loc[p].id)
    /\ Finish(p, [status |-> 200])
    /\ UNCHANGED <<projects, nodes, media, nodeOrderColumn, blobs, minted, loc, log,
                   assigned>>

\* ------------------------------------------------- nodes.py update_node
\* Attributes of an update: a key that is absent is None; the type key may be
\* present with the JSON value null, which is Some(None).
UpdateAttrs ==
    {[type |-> None, position |-> None, data |-> None],
     [type |-> Some(Some("video")), position |-> None, data |-> None],
     [type |-> Some(None), position |-> None, data |-> None],
     [type |-> None, position |-> Some([x |-> 100, y |-> 200]), data |-> None],
     [type |-> None, position |-> None, data |-> Some("d")],
     [type |-> Some(Some("image")), position |-> Some([x |-> 100, y |-> 200]),
      data |-> Some("d")]}

\* update_data: the keys of attributes among type, position and data
UpdateData(attributes) == {k \in {"type", "position", "data"} : attributes[k] # None}

\* COALESCE($n, column)
Coalesce(param, column) == IF param = None THEN column ELSE param[1]

\* UPDATE nodes SET type = COALESCE($1, type), position = COALESCE($2, position),
\* data = COALESCE($3, data) WHERE id = $5: the table after it
UpdateNodeRows_NoMerge(node_id, attributes) ==
    {IF n.id = node_id
     THEN [n EXCEPT !.type = IF attributes.type = None \/ attributes.type[1] = None
                             THEN "default" ELSE attributes.type[1][1],
                    !.position = OrDefault(attributes.position, DefaultPosition),
                    !.data = OrDefault(attributes.data, "{}")]
     ELSE n : n \in nodes}

UpdateNodeRows(node_id, attributes) ==
    {IF n.id = node_id
     THEN [n EXCEPT !.type = Coalesce(IF attributes.type = None THEN None
                                      ELSE attributes.type[1], n.type),
                    !.position = Coalesce(attributes.position, n.position),
                    !.data = Coalesce(attributes.data, n.data)]
     ELSE n : n \in nodes}

UpdateNode(p) ==
    /\ Accepts(p)
    /\ minted' = [minted EXCEPT !.request = @ + 1]
    /\ \E user \in Users, id \in 0..minted.node :
         LET node == find_node(id)
         IN IF NodeGuard(node) # 0
            THEN /\ Finish(p, [status |-> NodeGuard(node)])
                 /\ loc' = [loc EXCEPT ![p] = [op |-> "update_node"]]
            ELSE /\ loc' = [loc EXCEPT ![p] =
                        [op |-> "update_node", user |-> user, id |-> id,
                         projectId |-> (CHOOSE n \in node : TRUE).project_id]]
                 /\ Goto(p, "un_project")
    /\ NoCalls(p)
    /\ UNCHANGED <<projects, nodes, edges, media, nodeOrderColumn, blobs, assigned>>

\* project = await find_project(node["projectId"]); ownership check
UN_FindProject(p) ==
    /\ pc[p] = "un_project"
    /\ LET project == find_project(loc[p].projectId)
       IN IF NodeProjectGuard(project, loc[p].user) # 0
          THEN Finish(p, [status |-> NodeProjectGuard(project, loc[p].user)])
          ELSE Goto(p, "un_update")
    /\ UNCHANGED <<projects, nodes, edges, media, nodeOrderColumn, blobs, minted, loc,
                   log, assigned>>

\* build update_data from the attributes of the request; UPDATE nodes; return
UN_Update(p) ==
    /\ pc[p] = "un_update"
    /\ \E attributes \in UpdateAttrs :
         /\ loc' = [loc EXCEPT ![p] = [f \in DOMAIN loc[p] \cup {"attributes"} |->
                      IF f = "attributes" THEN attributes ELSE loc[p][f]]]
         /\ IF UpdateData(attributes) = {}
            THEN /\ Finish(p, [status |-> 400])
                 /\ UNCHANGED nodes
            ELSE /\ nodes' = UpdateNodeRows(loc[p].id, attributes)
                 /\ Finish(p, [status |-> 200])
    /\ UNCHANGED <<projects, edges, media, nodeOrderColumn, blobs, minted, log, assigned>>

\* ---------------------------------------- nodes.py reset_node_position
\* UPDATE nodes SET position = '{"x": 0, "y": 0}' WHERE id = $3: the table after it
ResetPositionRows(node_id) ==
    {IF n.id = node_id THEN [n EXCEPT !.position = [x |-> 0, y |-> 0]] ELSE n : n \in nodes}

ResetNodePosition(p) ==
    /\ Accepts(p)
    /\ minted' = [minted EXCEPT !.request = @ + 1]
    /\ \E user \in Users, id \in 0..minted.node :
         LET node == find_node(id)
         IN IF NodeGuard(node) # 0
            THEN /\ Finish(p, [status |-> NodeGuard(node)])
                 /\ loc' = [loc EXCEPT ![p] = [op |-> "reset_node_position"]]
            ELSE /\ loc' = [loc EXCEPT ![p] =
                        [op |-> "reset_node_position", user |-> user, id |-> id,
                         projectId |-> (CHOOSE n \in node : TRUE).project_id]]
                 /\ Goto(p, "rn_project")
    /\ NoCalls(p)
    /\ UNCHANGED <<projects, nodes, edges, media, nodeOrderColumn, blobs, assigned>>

\* project = await find_project(node["projectId"]); ownership check
RN_FindProject(p) ==
    /\ pc[p] = "rn_project"
    /\ LET project == find_project(loc[p].projectId)
       IN IF NodeProjectGuard(project, loc[p].user) # 0
          THEN Finish(p, [status |-> NodeProjectGuard(project, loc[p].user)])
          ELSE Goto(p, "rn_reset")
    /\ UNCHANGED <<projects, nodes, edges, media, nodeOrderColumn, blobs, minted, loc,
                   log, assigned>>

\* UPDATE nodes SET position = ...; return
RN_Reset(p) ==
    /\ pc[p] = "rn_reset"
    /\ nodes' = ResetPositionRows(loc[p].id)
    /\ Finish(p, [status |-> 200])
    /\ UNCHANGED <<projects, edges, media, nodeOrderColumn, blobs, minted, loc, log,
                   assigned>>

\* ------------------------------------ projects.py update_project_endpoint
\* Bodies of an update: a key that is absent (or null) is None
ProjectData ==
    {[title |-> None, description |-> None, status |-> None],
     [title |-> Some(<<" ", "E">>), description |-> None, status |-> None],
     [title |-> None, description |-> Some(<<"x", " ">>), status |-> Some(FALSE)]}

\* update_project: the table after the UPDATE
UpdateProjectRows(project_id, update_data) ==
    {IF r.id = project_id
     THEN [r EXCEPT !.title = Coalesce(update_data.title, r.title),
                    !.description = Coalesce(update_data.description, r.description),
                    !.status = Coalesce(update_data.status, r.status)]
     ELSE r : r \in projects}

UpdateProject(p) ==
    /\ Accepts(p)
    /\ minted' = [minted EXCEPT !.request = @ + 1]
    /\ \E user \in Users, project_id \in 0..minted.project :
         LET project == find_project(project_id)
         IN IF ProjectGuard(project, user) # 0
            THEN /\ Finish(p, [status |-> ProjectGuard(project, user)])
                 /\ loc' = [loc EXCEPT ![p] = [op |-> "update_project"]]
            ELSE /\ Goto(p, "up_update")
                 /\ loc' = [loc EXCEPT ![p] = [op |-> "update_project", user |-> user,
                                               project_id |-> project_id]]
    /\ NoCalls(p)
    /\ UNCHANGED <<projects, nodes, edges, media, nodeOrderColumn, blobs, assigned>>

\* validate the body; updated_project = await update_project(...); return
UP_Update(p) ==
    /\ pc[p] = "up_update"
    /\ \E project_data \in ProjectData :
         IF project_data.title = None /\ project_data.description = None
            /\ project_data.status = None
         THEN /\ Finish(p, [status |-> 400])
              /\ UNCHANGED projects
         ELSE LET update_data ==
                    [title |-> IF project_data.title = None THEN None
                               ELSE Some(Strip(project_data.title[1])),
                     description |-> IF project_data.description = None THEN None
                                     ELSE Some(Strip(project_data.description[1])),
                     status |-> project_data.status]
              IN /\ projects' = UpdateProjectRows(loc[p].project_id, update_data)
                 /\ Finish(p, [status |-> 200,
                               data |-> {r \in projects' : r.id = loc[p].project_id}])
    /\ UNCHANGED <<nodes, edges, media, nodeOrderColumn, blobs, minted, loc, log,
                   assigned>>

\* ---------------------------------------- projects.py get_project_details
GetProject(p) ==
    /\ Accepts(p)
    /\ minted' = [minted EXCEPT !.request = @ + 1]
    /\ \E user \in Users, project_id \in 0..minted.project :
         LET project == find_project(project_id)
         IN IF ProjectGuard(project, user) # 0
            THEN /\ Finish(p, [status |-> ProjectGuard(project, user)])
                 /\ loc' = [loc EXCEPT ![p] = [op |-> "get_project"]]
            ELSE /\ Goto(p, "gp_nodes")
                 /\ loc' = [loc EXCEPT ![p] = [op |-> "get_project", user |-> user,
                                               project_id |-> project_id,
                                               project |-> project]]
    /\ NoCalls(p)
    /\ UNCHANGED <<projects, nodes, edges, media, nodeOrderColumn, blobs, assigned>>

\* nodes = await find_project_nodes(project_id)
GP_Nodes(p) ==
    /\ pc[p] = "gp_nodes"
    /\ loc' = [loc EXCEPT ![p] = [f \in DOMAIN loc[p] \cup {"nodes"} |->
                 IF f = "nodes" THEN {n \in nodes : n.project_id = loc[p].project_id}
                 ELSE loc[p][f]]]
    /\ Goto(p, "gp_edges")
    /\ UNCHANGED <<projects, nodes, edges, media, nodeOrderColumn, blobs, minted, log,
                   assigned>>

\* edges = await find_edges(project_id); return
GP_Edges(p) ==
    /\ pc[p] = "gp_edges"
    /\ Finish(p, [status |-> 200, data |-> loc[p].project, nodes |-> loc[p].nodes,
                  edges |-> {e \in edges : e.project_id = loc[p].project_id}])
    /\ UNCHANGED <<projects, nodes, edges, media, nodeOrderColumn, blobs, minted, loc,
                   log, assigned>>

\* --------------------------------------- projects.py delete_project_endpoint
DeleteProject(p) ==
    /\ Accepts(p)
    /\ minted' = [minted EXCEPT !.request = @ + 1]
    /\ \E user \in Users, project_id \in 0..minted.project :
         LET project == find_project(project_id)
         IN IF ProjectGuard(project, user) # 0
            THEN /\ Finish(p, [status |-> ProjectGuard(project, user)])
                 /\ loc' = [loc EXCEPT ![p] = [op |-> "delete_project"]]
            ELSE /\ Goto(p, "dp_delete")
                 /\ loc' = [loc EXCEPT ![p] = [op |-> "delete_project", user |-> user,
                                               project_id |-> project_id]]
    /\ NoCalls(p)
    /\ UNCHANGED <<projects, nodes, edges, media, nodeOrderColumn, blobs, assigned>>

\* success = await delete_project(project_id)
DP_Delete(p) ==
    /\ pc[p] = "dp_delete"
    /\ projects' = {r \in projects : r.id # loc[p].project_id}
    /\ nodes' = CascadeNodes(loc[p].project_id)
    /\ edges' = CascadeEdges(loc[p].project_id)
    /\ media' = CascadeMedia(loc[p].project_id)
    /\ IF DeleteProjectResult(loc[p].project_id)
       THEN Finish(p, [status |-> 200])
       ELSE Finish(p, [status |-> 500])
    /\ UNCHANGED <<nodeOrderColumn, blobs, minted, loc, log, assigned>>

\* ---------------------------------------------------- media.py upload_media
Logged(p, entry) == log' = [log EXCEPT ![p] = Append(@, entry)]

FailedUpload == [call |-> "upload", public_id |-> <<>>, resource_type |-> "none",
                 ok |-> FALSE]

\* the dictionaries upload_media builds once Cloudinary has stored the file
UploadMediaLocals(user, title, type, projectId, file, unique_id, media_id) ==
    LET cloudinary_result == UploadResult(unique_id, file)
    IN [op |-> "upload_media", cloudinary_result |-> cloudinary_result,
        media_record |->
          [id |-> media_id, user_id |-> user, title |-> title,
           description |-> "", size |-> cloudinary_result.size,
           ext |-> cloudinary_result.format, type |-> type,
           url |-> cloudinary_result.url,
           bucket_id |-> cloudinary_result.public_id,
           project_id |-> projectId]]

\* the asset Cloudinary holds after the upload, and the call as logged
UploadedBlob(l) ==
    [public_id |-> l.cloudinary_result.public_id,
     resource_type |-> l.cloudinary_result.resource_type]

UploadCall(l) ==
    [call |-> "upload", public_id |-> l.cloudinary_result.public_id,
     resource_type |-> l.cloudinary_result.resource_type, ok |-> TRUE]

\* the response of upload_media
UploadMediaResponse(l) ==
    [status |-> 200, url |-> l.cloudinary_result.url, media_id |-> l.media_record.id]

UploadMedia(p) ==
    /\ Accepts(p)
    /\ minted.media < MaxMedia
    /\ \E user \in Users, title \in {"t"}, type \in MediaTypes,
          projectId \in {None} \cup {Some(i) : i \in 0..minted.project},
          file \in Files, fail \in BOOLEAN :
         IF file.filename = ""
         THEN /\ Finish(p, [status |-> 400])
              /\ loc' = [loc EXCEPT ![p] = [op |-> "upload_media"]]
              /\ minted' = [minted EXCEPT !.request = @ + 1]
              /\ NoCalls(p)
              /\ UNCHANGED blobs
         ELSE IF UploadRejected(file) # 0
         THEN /\ Finish(p, [status |-> UploadRejected(file)])
              /\ loc' = [loc EXCEPT ![p] = [op |-> "upload_media"]]
              /\ minted' = [minted EXCEPT !.request = @ + 1]
              /\ log' = [log EXCEPT ![p] = <<FailedUpload>>]
              /\ UNCHANGED blobs
         ELSE IF fail
         THEN /\ Finish(p, [status |-> 500])
              /\ loc' = [loc EXCEPT ![p] = [op |-> "upload_media"]]
              /\ minted' = [minted EXCEPT !.request = @ + 1]
              /\ log' = [log EXCEPT ![p] = <<FailedUpload>>]
              /\ UNCHANGED blobs
         ELSE LET l == UploadMediaLocals(user, title, type, projectId, file,
                                         minted.blob + 1, minted.media + 1)
              IN /\ blobs' = blobs \cup {UploadedBlob(l)}
                 /\ minted' = [minted EXCEPT !.request = @ + 1, !.blob = @ + 1,
                                              !.media = @ + 1]
                 /\ log' = [log EXCEPT ![p] = <<UploadCall(l)>>]
                 /\ loc' = [loc EXCEPT ![p] = l]
                 /\ Goto(p, "um_insert")
    /\ UNCHANGED <<projects, nodes, edges, media, nodeOrderColumn, assigned>>

\* await db_insert_media(media_record); return
UM_Insert(p) ==
    /\ pc[p] = "um_insert"
    /\ IF loc[p].media_record.project_id = None
          \/ ProjectFK(loc[p].media_record.project_id[1])
       THEN /\ media' = media \cup {MediaRow(loc[p].media_record)}
            /\ Finish(p, UploadMediaResponse(loc[p]))
       ELSE /\ Finish(p, [status |-> 500])
            /\ UNCHANGED media
    /\ UNCHANGED <<projects, nodes, edges, nodeOrderColumn, blobs, minted, loc, log,
                   assigned>>

\* ------------------------------------------- media.py update_media_endpoint
\* Bodies of an update: a key that is absent is None
MediaData ==
    {[title |-> None, description |-> None, type |-> None],
     [title |-> Some("t2"), description |-> None, type |-> None],
     [title |-> None, description |-> Some("d2"), type |-> Some("VIDEO")]}

\* update_data: the keys of media_data among title, description and type
MediaUpdateData(media_data) ==
    [k \in {f \in {"title", "description", "type"} : media_data[f] # None} |->
       media_data[k][1]]

\* build update_data; updated_media = await db_update_media(media_id, update_data)
UpdateMedia(p) ==
    /\ Accepts(p)
    /\ minted' = [minted EXCEPT !.request = @ + 1]
    /\ \E user \in Users, media_id \in 0..minted.media, media_data \in MediaData :
         LET update_data == MediaUpdateData(media_data)
             updated_media == UpdateMediaResult(media_id, update_data)
         IN /\ loc' = [loc EXCEPT ![p] = [op |-> "update_media", user |-> user,
                                          media_id |-> media_id,
                                          media_data |-> media_data]]
            /\ IF DOMAIN update_data = {}
               THEN /\ Finish(p, [status |-> 400])
                    /\ UNCHANGED media
               ELSE /\ media' = UpdateMediaRows(media_id, update_data)
                    /\ IF updated_media = {}
                       THEN Finish(p, [status |-> 404])
                       ELSE Finish(p, [status |-> 200,
                                       data |-> CHOOSE m \in updated_media : TRUE])
    /\ NoCalls(p)
    /\ UNCHANGED <<projects, nodes, edges, nodeOrderColumn, blobs, assigned>>

\* ------------------------------------------- media.py delete_media_endpoint
\* resource_type from str(type).lower()
ResourceTypeOfMedia(type) ==
    IF type = "IMAGE" THEN "image" ELSE IF type = "VIDEO" THEN "video" ELSE "raw"

\* delete_media: the table after DELETE FROM media WHERE id = $1
MediaWithout_Kept(media_id) == media
MediaWithout(media_id) == {m \in media : m.id # media_id}

\* delete_media: result != "DELETE 0"
DeleteMediaResult(media_id) == \E m \in media : m.id = media_id

\* find the record; delete the asset of its bucket_id, when it has one,
\* whatever the outcome
DeleteMedia(p) ==
    /\ Accepts(p)
    /\ minted' = [minted EXCEPT !.request = @ + 1]
    /\ \E user \in Users, media_id \in 0..minted.media :
         LET target_media == {m \in find_media(user) : m.id = media_id}
         IN IF target_media = {}
            THEN /\ Finish(p, [status |-> 404])
                 /\ loc' = [loc EXCEPT ![p] = [op |-> "delete_media", user |-> user,
                                               media_id |-> media_id]]
                 /\ NoCalls(p)
                 /\ UNCHANGED blobs
            ELSE LET t == CHOOSE m \in target_media : TRUE
                     public_id == Get(t, "bucket_id")
                     resource_type == ResourceTypeOfMedia(t.type)
                 IN /\ loc' = [loc EXCEPT ![p] = [op |-> "delete_media", user |-> user,
                                                  media_id |-> media_id, target |-> t]]
                    /\ IF public_id # None
                       THEN \E fail \in BOOLEAN :
                              LET deleted == ~fail /\ BlobExists(public_id[1], resource_type)
                              IN /\ log' = [log EXCEPT ![p] =
                                      <<[call |-> "delete", public_id |-> public_id[1],
                                         resource_type |-> resource_type,
                                         ok |-> deleted]>>]
                                 /\ blobs' = IF deleted
                                             THEN BlobsWithout(public_id[1], resource_type)
                                             ELSE blobs
                       ELSE /\ NoCalls(p)
                            /\ UNCHANGED blobs
                    /\ Goto(p, "dm_delete")
    /\ UNCHANGED <<projects, nodes, edges, media, nodeOrderColumn, assigned>>

\* deleted = await db_delete_media(media_id); return
DM_Delete(p) ==
    /\ pc[p] = "dm_delete"
    /\ media' = MediaWithout(loc[p].media_id)
    /\ IF DeleteMediaResult(loc[p].media_id)
       THEN Finish(p, [status |-> 200])
       ELSE Finish(p, [status |-> 500])
    /\ UNCHANGED <<projects, nodes, edges, nodeOrderColumn, blobs, minted, loc, log,
                   assigned>>

\* ------------------------------------------- media.py replace_media_file
\* if not deletion_ok: raise HTTPException(500)
ProceedToUpload_Always(deletion_ok) == TRUE
ProceedToUpload(deletion_ok) == deletion_ok

\* deletion_ok = await CloudinaryService.delete_file(public_id, detected_type)
DetectedDeletionOk_BestEffort(deleted) == TRUE
DetectedDeletionOk(deleted) == deleted

\* for rt in [...]: if await CloudinaryService.delete_file(...): deletion_ok = True; break
BlindDeletionStops_Never(deleted) == FALSE
BlindDeletionStops(deleted) == deleted

\* find the record, determine the old public_id
ReplaceMedia(p) ==
    /\ Accepts(p)
    /\ \E user \in Users, media_id \in 0..minted.media :
         LET target == {m \in find_media(user) : m.id = media_id}
         IN IF target = {}
            THEN /\ Finish(p, [status |-> 404])
                 /\ loc' = [loc EXCEPT ![p] = [op |-> "replace_media", user |-> user,
                                               media_id |-> media_id]]
                 /\ minted' = [minted EXCEPT !.request = @ + 1]
            ELSE LET t == CHOOSE m \in target : TRUE
                 IN IF OldPublicId(t) = None
                    THEN /\ Finish(p, [status |-> 400])
                         /\ loc' = [loc EXCEPT ![p] =
                                [op |-> "replace_media", user |-> user,
                                 media_id |-> media_id, target |-> t]]
                         /\ minted' = [minted EXCEPT !.request = @ + 1]
                    ELSE /\ loc' = [loc EXCEPT ![p] =
                                [op |-> "replace_media", user |-> user,
                                 media_id |-> media_id, target |-> t,
                                 public_id |-> OldPublicId(t)[1],
                                 rt |-> 1, detected_type |-> None,
                                 unique_id |-> minted.blob + 1]]
                         /\ minted' = [minted EXCEPT !.request = @ + 1, !.blob = @ + 1]
                         /\ Goto(p, "ra_info")
    /\ NoCalls(p)
    /\ UNCHANGED <<projects, nodes, edges, media, nodeOrderColumn, blobs, assigned>>

\* info = await CloudinaryService.get_file_info(public_id, resource_type=rt)
RA_Info(p) ==
    /\ pc[p] = "ra_info"
    /\ \E fail \in BOOLEAN :
         LET rt == Kinds[loc[p].rt]
             info == ~fail /\ BlobExists(loc[p].public_id, rt)
         IN /\ Logged(p, [call |-> "info", public_id |-> loc[p].public_id,
                          resource_type |-> rt, ok |-> info])
            /\ IF info
               THEN /\ loc' = [loc EXCEPT ![p].detected_type = Some(rt), ![p].rt = 1]
                    /\ Goto(p, "ra_delete")
               ELSE IF loc[p].rt < Len(Kinds)
               THEN /\ loc' = [loc EXCEPT ![p].rt = @ + 1]
                    /\ Goto(p, "ra_info")
               ELSE /\ loc' = [loc EXCEPT ![p].rt = 1]
                    /\ Goto(p, "ra_delete")
    /\ UNCHANGED <<projects, nodes, edges, media, nodeOrderColumn, blobs, minted,
                   assigned>>

\* await CloudinaryService.delete_file(public_id, resource_type=...)
RA_Delete(p) ==
    /\ pc[p] = "ra_delete"
    /\ \E fail \in BOOLEAN :
         LET rt == IF loc[p].detected_type # None THEN loc[p].detected_type[1]
                   ELSE Kinds[loc[p].rt]
             deleted == ~fail /\ BlobExists(loc[p].public_id, rt)
         IN /\ Logged(p, [call |-> "delete", public_id |-> loc[p].public_id,
                          resource_type |-> rt, ok |-> deleted])
            /\ blobs' = IF deleted THEN BlobsWithout(loc[p].public_id, rt) ELSE blobs
            /\ IF loc[p].detected_type # None
               THEN /\ IF ProceedToUpload(DetectedDeletionOk(deleted))
                       THEN Goto(p, "ra_upload")
                       ELSE Finish(p, [status |-> 500])
                    /\ UNCHANGED loc
               ELSE IF BlindDeletionStops(deleted)
               THEN /\ IF ProceedToUpload(TRUE)
                       THEN Goto(p, "ra_upload")
                       ELSE Finish(p, [status |-> 500])
                    /\ UNCHANGED loc
               ELSE IF loc[p].rt < Len(Kinds)
               THEN /\ loc' = [loc EXCEPT ![p].rt = @ + 1]
                    /\ Goto(p, "ra_delete")
               ELSE /\ IF ProceedToUpload(FALSE)
                       THEN Goto(p, "ra_upload")
                       ELSE Finish(p, [status |-> 500])
                    /\ UNCHANGED loc
    /\ UNCHANGED <<projects, nodes, edges, media, nodeOrderColumn, minted, assigned>>

\* upload_file raised: the HTTPException goes to the caller, nothing is undone
UploadFailed_DropRecord(p, status) ==
    /\ Finish(p, [status |-> status])
    /\ Logged(p, FailedUpload)
    /\ media' = media \ {m \in media : m.id = loc[p].target.id}
    /\ UNCHANGED <<blobs, loc>>

UploadFailed(p, status) ==
    /\ Finish(p, [status |-> status])
    /\ Logged(p, FailedUpload)
    /\ UNCHANGED <<blobs, loc, media>>

\* upload_result = await CloudinaryService.upload_file(file, ...); the file
\* part of the request is read here for the first time
RA_Upload(p) ==
    /\ pc[p] = "ra_upload"
    /\ \E file \in Files, fail \in BOOLEAN :
         IF UploadRejected(file) # 0
         THEN UploadFailed(p, UploadRejected(file))
         ELSE IF fail
         THEN UploadFailed(p, 500)
         ELSE LET upload_result == UploadResult(loc[p].unique_id, file)
              IN /\ blobs' = blobs \cup {[public_id |-> upload_result.public_id,
                                          resource_type |-> upload_result.resource_type]}
                 /\ Logged(p, [call |-> "upload", public_id |-> upload_result.public_id,
                               resource_type |-> upload_result.resource_type,
                               ok |-> TRUE])
                 /\ loc' = [loc EXCEPT ![p] =
                        [f \in DOMAIN loc[p] \cup {"upload_result"} |->
                           IF f = "upload_result" THEN upload_result ELSE loc[p][f]]]
                 /\ Goto(p, "ra_update")
                 /\ UNCHANGED media
    /\ UNCHANGED <<projects, nodes, edges, nodeOrderColumn, minted, assigned>>

\* updated = await db_update_media(target["id"], update_data); return
RA_Update(p) ==
    /\ pc[p] = "ra_update"
    /\ LET update_data == [url |-> loc[p].upload_result.url,
                           ext |-> loc[p].upload_result.format,
                           size |-> loc[p].upload_result.size,
                           bucket_id |-> loc[p].upload_result.public_id]
           updated == UpdateMediaResult(loc[p].target.id, update_data)
       IN /\ media' = UpdateMediaRows(loc[p].target.id, update_data)
          /\ IF updated = {}
             THEN Finish(p, [status |-> 500])
             ELSE Finish(p, [status |-> 200, data |-> CHOOSE m \in updated : TRUE])
    /\ UNCHANGED <<projects, nodes, edges, nodeOrderColumn, blobs, minted, loc, log,
                   assigned>>

\* ------------------------------------------------------ specification
Init ==
    /\ projects = {}
    /\ nodes = {}
    /\ edges = {}
    /\ media = {}
    /\ nodeOrderColumn \in BOOLEAN
    /\ blobs = {}
    /\ minted = [request |-> 0, project |-> 0, node |-> 0, edge |-> 0, media |-> 0,
                 blob |-> 0]
    /\ pc = [p \in Procs |-> "idle"]
    /\ loc = [p \in Procs |-> Idle]
    /\ resp = [p \in Procs |-> NoResp]
    /\ log = [p \in Procs |-> <<>>]
    /\ assigned = {}

\* the graph of a project: nodes and edges
NextGraph ==
    \E p \in Procs :
        \/ CreateProject(p)
        \/ CP_InsertStart(p)
        \/ CP_InsertEnd(p)
        \/ CP_InsertEdge(p)
        \/ CreateNode(p)
        \/ CN_ReadMax(p)
        \/ CN_InsertNode(p)
        \/ CN_InsertEdge(p)
        \/ DeleteNode(p)
        \/ DN_FindProject(p)
        \/ DN_DeleteNode(p)
        \/ DN_DeleteEdges(p)
        \/ DeleteProject(p)
        \/ DP_Delete(p)

SpecGraph == Init /\ [][NextGraph]_vars

\* the life of a project and of the media uploaded into it
NextProject ==
    \E p \in Procs :
        \/ CreateProject(p)
        \/ CP_InsertStart(p)
        \/ CP_InsertEnd(p)
        \/ CP_InsertEdge(p)
        \/ UploadMedia(p)
        \/ UM_Insert(p)
        \/ DeleteProject(p)
        \/ DP_Delete(p)

SpecProject == Init /\ [][NextProject]_vars

\* the media library and the BlobStore

NextMedia ==
    \E p \in Procs :
        \/ UploadMedia(p)
        \/ UM_Insert(p)
        \/ ReplaceMedia(p)
        \/ RA_Info(p)
        \/ RA_Delete(p)
        \/ RA_Upload(p)
        \/ RA_Update(p)

SpecMedia == Init /\ [][NextMedia]_vars

\* The store after u1 has created the first project.
Seeded == CreateProjectLocals("u1", <<"D">>, 1, 1, 2, 1)

InitSeeded ==
    /\ projects = {ProjectRow(Seeded.new_project)}
    /\ nodes = {NodeRow(Seeded.start_node), NodeRow(Seeded.end_node)}
    /\ edges = {EdgeRow(Seeded.edge)}
    /\ media = {}
    /\ nodeOrderColumn \in BOOLEAN
    /\ blobs = {}
    /\ minted = [request |-> 1, project |-> 1, node |-> 2, edge |-> 1, media |-> 0,
                 blob |-> 0]
    /\ pc = [p \in Procs |-> IF p = 1 THEN "done" ELSE "idle"]
    /\ loc = [p \in Procs |-> IF p = 1 THEN Seeded ELSE Idle]
    /\ resp = [p \in Procs |-> IF p = 1 THEN CreateProjectResponse(Seeded) ELSE NoResp]
    /\ log = [p \in Procs |-> <<>>]
    /\ assigned = {[node |-> Seeded.start_node.id, project |-> 1,
                    order |-> StartOrder, by |-> "create_project"],
                   [node |-> Seeded.end_node.id, project |-> 1,
                    order |-> EndOrder, by |-> "create_project"]}

\* a project under edition: its nodes and its own fields are read and updated
NextEdit ==
    \E p \in Procs :
        \/ UpdateNode(p)
        \/ UN_FindProject(p)
        \/ UN_Update(p)
        \/ ResetNodePosition(p)
        \/ RN_FindProject(p)
        \/ RN_Reset(p)
        \/ UpdateProject(p)
        \/ UP_Update(p)
        \/ GetProject(p)
        \/ GP_Nodes(p)
        \/ GP_Edges(p)
        \/ DeleteNode(p)
        \/ DN_FindProject(p)
        \/ DN_DeleteNode(p)
        \/ DN_DeleteEdges(p)

SpecEdit == InitSeeded /\ [][NextEdit]_vars

\* a project whose rows are inserted while it is deleted
NextRefs ==
    \E p \in Procs :
        \/ CreateNode(p)
        \/ CN_ReadMax(p)
        \/ CN_InsertNode(p)
        \/ CN_InsertEdge(p)
        \/ UploadMedia(p)
        \/ UM_Insert(p)
        \/ DeleteNode(p)
        \/ DN_FindProject(p)
        \/ DN_DeleteNode(p)
        \/ DN_DeleteEdges(p)
        \/ DeleteProject(p)
        \/ DP_Delete(p)

SpecRefs == InitSeeded /\ [][NextRefs]_vars

\* the media library: records are uploaded, described and deleted
NextLibrary ==
    \E p \in Procs :
        \/ UploadMedia(p)
        \/ UM_Insert(p)
        \/ UpdateMedia(p)
        \/ DeleteMedia(p)
        \/ DM_Delete(p)

SpecLibrary == Init /\ [][NextLibrary]_vars

\* A media table that holds a record from before blob ids were kept with the
\* asset's folder in the url (id 0: not minted by the requests of the model).
LegacyRecord ==
    [id |-> 0, user_id |-> "u1", title |-> "t", description |-> "", size |-> 10,
     type |-> "IMAGE", ext |-> <<"jpg">>,
     url |-> <<"https://old.example/", "files/", "0", ".", "jpg">>,
     status |-> "active", project_id |-> None]

InitLegacy ==
    /\ projects = {}
    /\ nodes = {}
    /\ edges = {}
    /\ media = {LegacyRecord}
    /\ nodeOrderColumn \in BOOLEAN
    /\ blobs = {}
    /\ minted = [request |-> 0, project |-> 0, node |-> 0, edge |-> 0, media |-> 0,
                 blob |-> 0]
    /\ pc = [p \in Procs |-> "idle"]
    /\ loc = [p \in Procs |-> Idle]
    /\ resp = [p \in Procs |-> NoResp]
    /\ log = [p \in Procs |-> <<>>]
    /\ assigned = {}

SpecLegacy == InitLegacy /\ [][NextMedia]_vars

\* The library after u1 has uploaded its first file, an image or a document.
Uploaded(file) == UploadMediaLocals("u1", "t", "IMAGE", None, file, 1, 1)

InitUploaded ==
    \E file \in {f \in Files : f.filename # "" /\ UploadRejected(f) = 0} :
        /\ projects = {}
        /\ nodes = {}
        /\ edges = {}
        /\ media = {MediaRow(Uploaded(file).media_record)}
        /\ nodeOrderColumn \in BOOLEAN
        /\ blobs = {UploadedBlob(Uploaded(file))}
        /\ minted = [request |-> 1, project |-> 0, node |-> 0, edge |-> 0, media |-> 1,
                     blob |-> 1]
        /\ pc = [p \in Procs |-> IF p = 1 THEN "done" ELSE "idle"]
        /\ loc = [p \in Procs |-> IF p = 1 THEN Uploaded(file) ELSE Idle]
        /\ resp = [p \in Procs |->
                     IF p = 1 THEN UploadMediaResponse(Uploaded(file)) ELSE NoResp]
        /\ log = [p \in Procs |-> IF p = 1 THEN <<UploadCall(Uploaded(file))>> ELSE <<>>]
        /\ assigned = {}

\* the asset of one record is replaced, again and again
NextReplace ==
    \E p \in Procs :
        \/ ReplaceMedia(p)
        \/ RA_Info(p)
        \/ RA_Delete(p)
        \/ RA_Upload(p)
        \/ RA_Update(p)

SpecReplace == InitUploaded /\ [][NextReplace]_vars

\* ============================================================== claims
Replacing(p) == loc[p].op = "replace_media" /\ "target" \in DOMAIN loc[p]
Calls(p, call) == {i \in DOMAIN log[p] : log[p][i].call = call}
Responded(p) == pc[p] = "done"
RecordsOf(p) == {m \in media : m.id = loc[p].target.id}

C3_ReplaceUpdatesRecord ==
    \A p \in Procs :
        (/\ Replacing(p)
         /\ Responded(p)
         /\ \E j \in Calls(p, "delete") : log[p][j].ok
         /\ \E i \in Calls(p, "upload") : log[p][i].ok)
        => /\ resp[p].status = 200
           /\ \A m \in RecordsOf(p) :
                /\ m.url = loc[p].upload_result.url
                /\ m.ext = loc[p].upload_result.format
                /\ m.size = loc[p].upload_result.size
                /\ OldPublicId(m) = Some(loc[p].upload_result.public_id)
                /\ m.user_id = loc[p].target.user_id
                /\ m.title = loc[p].target.title
                /\ m.description = loc[p].target.description
                /\ m.type = loc[p].target.type
                /\ resp[p].data = m

\* C4: the step of replaceAsset in which the upload fails (the old blob was
\* deleted before) fails the operation and changes neither the media table
\* nor the BlobStore, so the record keeps a url and blob id whose blob is no
\* longer in the BlobStore.
UploadFailedAfterDelete(p) ==
    /\ Replacing(p)
    /\ Responded(p)
    /\ \E j \in Calls(p, "delete") : log[p][j].ok
    /\ \E i \in Calls(p, "upload") : ~log[p][i].ok

C5_CreateNodeOrdersUnique ==
    \A a, b \in assigned :
        (/\ a.by = "create_node"
         /\ b.by = "create_node"
         /\ a.project = b.project
         /\ a.node # b.node)
        => a.order # b.order

\* C6 (as claimed): a node created by createNode never gets an order value
\* that a node of the same project, present or deleted, was given before.
C6_OrderNeverReused ==
    [][\A a \in assigned' \ assigned :
          a.by = "create_node"
          => \A b \in assigned : b.project = a.project => b.order # a.order]_vars

\* C7: when deleteNode(n) completes with success, node n is absent and no edge
\* has n as source or target.
C7_DeleteNodeLeavesNoIncidentEdge ==
    [][\A p \in Procs :
          (pc[p] = "dn_edges" /\ pc'[p] = "done" /\ resp'[p].status = 200)
          => /\ ~\E n \in nodes' : n.id = loc[p].id
             /\ ~\E e \in edges' : e.source = loc[p].id \/ e.target = loc[p].id]_vars

\* C7 witness: deleteNode of the seed end node has completed; the start node
\* is still there and the seed edge is gone
C7_Witness ==
    \E p \in Procs :
        /\ loc[p].op = "delete_node"
        /\ Responded(p)
        /\ resp[p].status = 200
        /\ loc[p].id = 2
        /\ \E n \in nodes : n.id = 1
        /\ minted.edge >= 1
        /\ edges = {}

\* C8 (as claimed): no state shows the node of a deleteNode gone while an edge
\* with that node as source or target is still there.
C8_DeleteNodeAtomic ==
    \A p \in Procs :
        (/\ loc[p].op = "delete_node"
         /\ pc[p] \in {"dn_edges", "done"}
         /\ "id" \in DOMAIN loc[p]
         /\ ~\E n \in nodes : n.id = loc[p].id)
        => ~\E e \in edges : e.source = loc[p].id \/ e.target = loc[p].id

\* C9: the DELETE of deleteProject(p) leaves no node, edge or media record of
\* project p, and the operation answers success exactly when the DELETE
\* removed a project row.
C9_DeleteProjectCascades ==
    [][\A p \in Procs :
          (pc[p] = "dp_delete" /\ pc'[p] = "done")
          => /\ ~\E n \in nodes' : n.project_id = loc[p].project_id
             /\ ~\E e \in edges' : e.project_id = loc[p].project_id
             /\ ~\E m \in media' : m.project_id = Some(loc[p].project_id)
             /\ (resp'[p].status = 200)
                  <=> (/\ \E r \in projects : r.id = loc[p].project_id
                       /\ ~\E r \in projects' : r.id = loc[p].project_id)]_vars

\* C9 witness: deleteProject answered success and the media record that was
\* uploaded into the project is gone with it
C9_Witness ==
    \E p \in Procs :
        /\ loc[p].op = "delete_project"
        /\ Responded(p)
        /\ resp[p].status = 200
        /\ minted.media >= 1
        /\ minted.node >= 2
        /\ media = {}
        /\ nodes = {}
        /\ blobs # {}

\* C10 (as claimed): when createProject completes with success, the project
\* has exactly two nodes, start at (0,40) with order 1 and end at (800,40)
\* with order 2, exactly one edge, default, from start to end, and the
\* caller as owner.
C10_CreateProjectSeeds ==
    [][\A p \in Procs :
          (pc[p] = "cp_edge" /\ pc'[p] = "done" /\ resp'[p].status = 200)
          => LET pid == loc[p].new_project.id
                 ns == {n \in nodes' : n.project_id = pid}
                 es == {e \in edges' : e.project_id = pid}
             IN /\ Cardinality(ns) = 2
                /\ \E s, t \in ns :
                     /\ s.type = "start" /\ s.position = [x |-> 0, y |-> 40]
                     /\ s.node_order = Some(1)
                     /\ t.type = "end" /\ t.position = [x |-> 800, y |-> 40]
                     /\ t.node_order = Some(2)
                     /\ es = {e \in es : e.type = "default" /\ e.source = s.id
                                         /\ e.target = t.id}
                /\ Cardinality(es) = 1
                /\ \A r \in projects' : r.id = pid => r.user_id = loc[p].user]_vars

\* C11 (as claimed): a project that createProject has inserted is never seen
\* without its two seed nodes and its seed edge while the operation has not
\* yet answered.
C11_CreateProjectAllOrNothing ==
    \A p \in Procs :
        (/\ loc[p].op = "create_project"
         /\ pc[p] \in {"cp_start", "cp_end", "cp_edge"}
         /\ \E r \in projects : r.id = loc[p].new_project.id)
        => /\ \E n \in nodes : n.id = loc[p].start_node.id
           /\ \E n \in nodes : n.id = loc[p].end_node.id
           /\ \E e \in edges : e.id = loc[p].edge.id

\* C12 (as claimed): every project-scoped operation answers NotFound (404)
\* for an id that does not exist and Forbidden (403) for an id that exists in
\* a project of another principal.
C12_NotFoundVersusForbidden ==
    \A user \in Users :
        /\ \A id \in 0..minted.project :
              LET project == find_project(id)
                  expected == IF project = {} THEN 404
                              ELSE IF \E r \in project : r.user_id # user THEN 403
                              ELSE 0
              IN /\ ProjectGuard(project, user) = expected
                 /\ CreateNodeGuard(project, user) = expected
        /\ \A id \in 0..minted.node :
              LET node == find_node(id)
                  owners == {r.user_id : r \in {q \in projects :
                                 \E n \in node : n.project_id = q.id}}
                  expected == IF node = {} THEN 404
                              ELSE IF owners # {user} THEN 403
                              ELSE 0
                  answered == IF NodeGuard(node) # 0 THEN NodeGuard(node)
                              ELSE NodeProjectGuard(
                                     find_project((CHOOSE n \in node : TRUE).project_id),
                                     user)
              IN answered = expected

\* C16 (as claimed): the source and the target of every edge are nodes that
\* exist and belong to the project of the edge.
C16_EdgeEndpointsExist ==
    \A e \in edges :
        /\ \E n \in nodes : n.id = e.source /\ n.project_id = e.project_id
        /\ \E n \in nodes : n.id = e.target /\ n.project_id = e.project_id

\* the worker that takes the step, and the principal it works for
Acts(p) == <<pc[p], loc[p], resp[p], log[p]>> # <<pc'[p], loc'[p], resp'[p], log'[p]>>
CallerOf(l) ==
    IF "user" \in DOMAIN l THEN Some(l.user)
    ELSE IF "media_record" \in DOMAIN l THEN Some(l.media_record.user_id)
    ELSE None
ProjectOwners(project_id) == {r.user_id : r \in {q \in projects : q.id = project_id}}

\* C13 (as claimed): a step of a request changes or deletes no project, node,
\* edge or media record that belongs (itself or through its project) to
\* another principal than the caller.
C13_NonOwnerChangesNothing ==
    [][\A p \in Procs :
          Acts(p)
          => LET caller == CallerOf(loc'[p])
             IN /\ \A r \in projects \ projects' : Some(r.user_id) = caller
                /\ \A n \in nodes \ nodes' :
                      \A o \in ProjectOwners(n.project_id) : Some(o) = caller
                /\ \A e \in edges \ edges' :
                      \A o \in ProjectOwners(e.project_id) : Some(o) = caller
                /\ \A m \in media \ media' : Some(m.user_id) = caller]_vars

\* C14: the UPDATE step of updateNode (reached by the owner only) answers
\* InvalidInput (400) and leaves the nodes as they are when none of type,
\* position, data is present; otherwise it gives the present fields their new
\* values and leaves the absent ones, the order, the project and the id of the
\* node, every other node and every other table unchanged.
C14_UpdateNodeChangesOnlyGivenFields ==
    [][\A p \in Procs :
          (pc[p] = "un_update" /\ pc'[p] = "done")
          => LET a == loc'[p].attributes
                 before == {n \in nodes : n.id = loc[p].id}
                 after == {n \in nodes' : n.id = loc[p].id}
             IN /\ (a.type = None /\ a.position = None /\ a.data = None)
                     => (resp'[p].status = 400 /\ nodes' = nodes)
                /\ (a.type # None \/ a.position # None \/ a.data # None)
                     => resp'[p].status = 200
                /\ \A n \in nodes : n.id # loc[p].id => n \in nodes'
                /\ Cardinality(after) = Cardinality(before)
                /\ \A b \in before, n \in after :
                      /\ n.project_id = b.project_id
                      /\ n.node_order = b.node_order
                      /\ a.type = None => n.type = b.type
                      /\ a.position = None => n.position = b.position
                      /\ a.data = None => n.data = b.data
                      /\ (a.type # None /\ a.type[1] # None) => n.type = a.type[1][1]
                      /\ a.position # None => n.position = a.position[1]
                      /\ a.data # None => n.data = a.data[1]
                /\ edges' = edges
                /\ projects' = projects
                /\ media' = media]_vars

\* C14 witness: an updateNode with only the position present has moved the
\* seed start node and left its type
C14_Witness ==
    \E p \in Procs :
        /\ loc[p].op = "update_node"
        /\ Responded(p)
        /\ resp[p].status = 200
        /\ loc[p].attributes.type = None
        /\ loc[p].attributes.position # None
        /\ loc[p].attributes.data = None
        /\ \E n \in nodes : /\ n.id = loc[p].id
                             /\ n.type = "start"
                             /\ n.position = loc[p].attributes.position[1]
                             /\ n.position # [x |-> StartX, y |-> StartY]

\* C17: every node, edge and media record with a project id refers to a
\* project that exists.
C17_ProjectReferencesExist ==
    /\ \A n \in nodes : \E r \in projects : r.id = n.project_id
    /\ \A e \in edges : \E r \in projects : r.id = e.project_id
    /\ \A m \in media : m.project_id # None => \E r \in projects : r.id = m.project_id[1]

\* C17 witness: a createNode passed its ownership check and read the order,
\* the project was deleted meanwhile, and the insert of the node was refused
C17_Witness ==
    \E p \in Procs :
        /\ loc[p].op = "create_node"
        /\ Responded(p)
        /\ resp[p].status = 500
        /\ "new_node" \in DOMAIN loc[p]
        /\ ~\E r \in projects : r.id = loc[p].projectId
        /\ ~\E n \in nodes : n.id = loc[p].node_id

\* C15 (as claimed): the DELETE step of deleteMedia leaves the record absent
\* and the operation answers success.
C15_DeleteMediaAlwaysSucceeds ==
    [][\A p \in Procs :
          (pc[p] = "dm_delete" /\ pc'[p] = "done")
          => /\ ~\E m \in media' : m.id = loc[p].media_id
             /\ resp'[p].status = 200]_vars

\* C15 (amended): the DELETE step of deleteMedia leaves the record absent,
\* the other records and the BlobStore as they are, whatever became of the
\* blob; it answers success when it removed the row and 500 when the row was
\* already gone.
C15_DeleteMediaRemovesRow ==
    [][\A p \in Procs :
          (pc[p] = "dm_delete" /\ pc'[p] = "done")
          => /\ ~\E m \in media' : m.id = loc[p].media_id
             /\ media' = {m \in media : m.id # loc[p].media_id}
             /\ blobs' = blobs
             /\ resp'[p].status \in {200, 500}
             /\ (resp'[p].status = 200) <=> (\E m \in media : m.id = loc[p].media_id)]_vars

\* C15 witness: deleteMedia answered success, the record is gone and its
\* blob is still in the BlobStore
C15_Witness ==
    \E p \in Procs :
        /\ loc[p].op = "delete_media"
        /\ Responded(p)
        /\ resp[p].status = 200
        /\ ~\E m \in media : m.id = loc[p].media_id
        /\ \E b \in blobs : Some(b.public_id) = OldPublicId(loc[p].target)

\* C18 (as claimed): after a successful upload the stored record holds the
\* blob id that the upload returned, and a lookup of the record yields it.
C18_UploadPersistsBlobId ==
    \A p \in Procs :
        (/\ loc[p].op = "upload_media"
         /\ Responded(p)
         /\ resp[p].status = 200)
        => \A m \in find_media(loc[p].media_record.user_id) :
              m.id = loc[p].media_record.id
              => Get(m, "bucket_id") = Some(loc[p].cloudinary_result.public_id)

\* C19: a replaceAsset for an id that no record of the caller has (no such
\* record, or a record of another principal) answers NotFound (404) at once,
\* with no BlobStore call and no change to the records.
C19_ReplaceNotFound ==
    [][\A p \in Procs :
          (Accepts(p) /\ Acts(p) /\ loc'[p].op = "replace_media")
          => LET owned == {m \in media : /\ m.id = loc'[p].media_id
                                         /\ m.user_id = loc'[p].user}
             IN owned = {}
                => /\ pc'[p] = "done"
                   /\ resp'[p].status = 404
                   /\ log'[p] = <<>>
                   /\ media' = media
                   /\ blobs' = blobs]_vars

\* C19 witness: the second request, served after the upload of the first had
\* answered, was a replaceAsset on the record of the other principal
C19_Witness ==
    /\ minted.request = 2
    /\ loc[1].op = "replace_media"
    /\ Responded(1)
    /\ resp[1].status = 404
    /\ \E m \in media : m.id = loc[1].media_id /\ m.user_id # loc[1].user

C21_CreateNodeOrderIsMaxPlusOne ==
    [][\A p \in Procs :
          (/\ pc[p] = "cn_max"
           /\ pc'[p] = "cn_node"
           /\ \A q \in Procs \ {p} : Free(q))
          => LET present == {a \in assigned : /\ a.project = loc[p].projectId
                                              /\ \E n \in nodes : n.id = a.node}
                 given == {a.order : a \in present}
             IN /\ loc'[p].new_node.nodeOrder
                     = IF given = {} THEN 1 ELSE MaxOf(given) + 1
                /\ (\A a \in present : a.by = "create_project") /\ Cardinality(present) = 2
                     => loc'[p].new_node.nodeOrder = 3]_vars

\* C28 (as claimed): when createNode answers success with order k, the node
\* stored under the returned id has order k.
C28_ReturnedOrderIsPersisted ==
    [][\A p \in Procs :
          (/\ loc[p].op = "create_node"
           /\ pc[p] \in {"cn_node", "cn_edge"}
           /\ pc'[p] = "done"
           /\ resp'[p].status = 200)
          => \A n \in nodes' :
                n.id = resp'[p].data.id
                => n.node_order = Some(resp'[p].data.nodeOrder)]_vars

\* C22: the insert_node step of a createNode that goes on to success adds
\* exactly one node (the new one, in the project of the request) and leaves
\* the edges alone, and it is the last step exactly when no sourceNodeId was
\* supplied; the insert_edge step that answers success adds exactly one edge,
\* sourceNodeId -> new node with the edge type and project of the request, and
\* leaves the nodes alone; no other step of createNode changes a node or an
\* edge, and no step changes or removes an existing node or edge.
C22_CreateNodeAddsNodeAndEdge ==
    [][\A p \in Procs :
          /\ (/\ pc[p] = "cn_node"
              /\ pc'[p] \in {"cn_edge", "done"}
              /\ pc'[p] = "done" => resp'[p].status = 200)
             => /\ nodes \subseteq nodes'
                /\ Cardinality(nodes' \ nodes) = 1
                /\ \A n \in nodes' \ nodes :
                      n.id = loc[p].node_id /\ n.project_id = loc[p].projectId
                /\ edges' = edges
                /\ (pc'[p] = "done") <=> (loc[p].sourceNodeId = None)
          /\ (pc[p] = "cn_edge" /\ pc'[p] = "done" /\ resp'[p].status = 200)
             => /\ nodes' = nodes
                /\ edges \subseteq edges'
                /\ edges' \ edges =
                     {[id |-> loc[p].edge_id, type |-> loc[p].typeEdge,
                       source |-> loc[p].sourceNodeId[1], target |-> loc[p].node_id,
                       project_id |-> loc[p].projectId]}
          /\ (/\ Acts(p)
              /\ loc'[p].op = "create_node"
              /\ pc[p] \notin {"cn_node", "cn_edge"})
             => nodes' = nodes /\ edges' = edges]_vars

\* C22 witness: a createNode with a sourceNodeId has answered success; its node
\* and its edge from the source node are stored
C22_Witness ==
    \E p \in Procs :
        /\ loc[p].op = "create_node"
        /\ Responded(p)
        /\ resp[p].status = 200
        /\ loc[p].sourceNodeId # None
        /\ \E n \in nodes : n.id = loc[p].node_id
        /\ \E e \in edges : /\ e.id = loc[p].edge_id
                            /\ e.source = loc[p].sourceNodeId[1]
                            /\ e.target = loc[p].node_id

C25_DeleteNodeRemovesOnlyItsRows ==
    [][\A p \in Procs :
          /\ (pc[p] = "dn_node" /\ pc'[p] = "dn_edges")
             => /\ nodes' \subseteq nodes
                /\ \A n \in nodes : n.id # loc[p].id => n \in nodes'
                /\ edges' = edges
          /\ (pc[p] = "dn_edges" /\ pc'[p] = "done")
             => /\ nodes' = nodes
                /\ edges' \subseteq edges
                /\ \A e \in edges :
                      (e.source # loc[p].id /\ e.target # loc[p].id) => e \in edges'
          /\ (/\ Acts(p)
              /\ loc'[p].op = "delete_node"
              /\ pc[p] \notin {"dn_node", "dn_edges"})
             => nodes' = nodes /\ edges' = edges]_vars

\* C25 witness: a node created with an edge from the seed start node has been
\* deleted; the two seed nodes and the seed edge are as createProject left them
C25_Witness ==
    /\ \A q \in Procs : Free(q)
    /\ \E p \in Procs :
          /\ loc[p].op = "delete_node"
          /\ Responded(p)
          /\ resp[p].status = 200
          /\ loc[p].id = 3
    /\ minted.edge = 2
    /\ nodes = {NodeRow(Seeded.start_node), NodeRow(Seeded.end_node)}
    /\ edges = {EdgeRow(Seeded.edge)}

\* C26 (as claimed): once a replaceAsset has answered, a blob it uploaded that
\* is in the BlobStore is the blob the record refers to.
C26_ReplaceLeavesNoLooseBlob ==
    \A p \in Procs :
        (Replacing(p) /\ Responded(p))
        => \A i \in Calls(p, "upload") :
              (/\ log[p][i].ok
               /\ BlobExists(log[p][i].public_id, log[p][i].resource_type))
              => /\ RecordsOf(p) # {}
                 /\ \A m \in RecordsOf(p) : OldPublicId(m) = Some(log[p][i].public_id)

\* C27: a step of UpdateMediaMetadata keeps every record in the table with
\* its id, url, ext, size, blob id, owner, project and status, changes no
\* record but the targeted one and in it none of title, description, type
\* that the call did not supply, and leaves the BlobStore alone; a call that
\* supplies none of the three answers 400 and changes nothing.
C27_UpdateMediaFrame ==
    [][\A p \in Procs :
          (Acts(p) /\ loc'[p].op = "update_media")
          => /\ blobs' = blobs
             /\ {m.id : m \in media'} = {m.id : m \in media}
             /\ Cardinality(media') = Cardinality(media)
             /\ \A m \in media : \E m2 \in media' :
                   /\ m2.id = m.id
                   /\ m2.url = m.url
                   /\ m2.ext = m.ext
                   /\ m2.size = m.size
                   /\ OldPublicId(m2) = OldPublicId(m)
                   /\ m2.user_id = m.user_id
                   /\ m2.project_id = m.project_id
                   /\ m2.status = m.status
                   /\ m.id # loc'[p].media_id => m2 = m
                   /\ \A f \in {"title", "description", "type"} :
                         loc'[p].media_data[f] = None => m2[f] = m[f]
             /\ (\A f \in {"title", "description", "type"} :
                    loc'[p].media_data[f] = None)
                => /\ resp'[p].status = 400
                   /\ media' = media]_vars

\* C27 witness: an update that supplied description and type has answered
\* success and the record carries them, with the url of its upload
C27_Witness ==
    \E p \in Procs :
        /\ loc[p].op = "update_media"
        /\ Responded(p)
        /\ resp[p].status = 200
        /\ \E m \in media :
              /\ m.id = loc[p].media_id
              /\ m.description = "d2"
              /\ m.type = "VIDEO"
              /\ m.title = "t"
              /\ Contains(m.url, Marker)

\* the BlobStore B holds no blob of this id, under any kind
BlobGone(public_id, B) == ~\E b \in B : b.public_id = public_id

====
